---- MODULE Spec2Model ----
(***************************************************************************)
(* Model of cryptoR's data_collect.py: the CryptoSymbol value type         *)
(* (from_string / to_string) and symbol_price_hist, the fetch of the price *)
(* history of one symbol or of a collection of symbols.                    *)
(*                                                                         *)
(* Strings are sequences of characters (one-character TLA+ strings);       *)
(* string literals that are only ever copied or compared as a whole are    *)
(* one-element sequences holding the literal.                              *)
(***************************************************************************)
EXTENDS Integers, Sequences, FiniteSets

VARIABLES
    \* ---- CryptoSymbol.from_string / to_string ----
    symbol_pair_str,  \* the argument of from_string
    sym_pc,           \* "idle" | "start" | "parsed" | "raised" | "formatted"
    parsed,           \* the CryptoSymbol from_string returned
    sym_exc,          \* the exception from_string raised
    formatted,        \* what to_string returned for `parsed`
    \* ---- symbol_price_hist ----
    symbol,           \* the argument: [iterable, items]
    unit, merge, index, exchange,
    pc,               \* "idle" | "running" | "waiting" | "returned" | "raised"
    i,                \* number of symbols the for loop has finished
    requests,         \* the HTTP requests issued so far, in order
    responses,        \* the responses received so far, in order
    data,             \* the local dict sym_str -> DataFrame (insertion ordered)
    df_res,           \* the value returned
    exc               \* the exception that left symbol_price_hist

symvars == <<symbol_pair_str, sym_pc, parsed, sym_exc, formatted>>
histvars == <<symbol, unit, merge, index, exchange, pc, i, requests, responses,
              data, df_res, exc>>
vars == <<symvars, histvars>>

\* ------------------------------------------------------------------ bounds
MaxLen == 4        \* longest string handed to from_string
MaxSymbols == 2    \* longest collection handed to symbol_price_hist

\* ----------------------------------------------------------------- strings
None == <<"NoneType">>
SEP == "/"
Chars == {"B", "u", " ", SEP}

RECURSIVE StringsUpTo(_)
StringsUpTo(n) ==
    IF n = 0 THEN {<<>>}
    ELSE LET shorter == StringsUpTo(n - 1)
         IN  shorter \cup {Append(str, c) : str \in {x \in shorter : Len(x) = n - 1}, c \in Chars}

Count(str, c) == Cardinality({k \in 1..Len(str) : str[k] = c})

\* str.split(sep): the pieces between the occurrences of sep, in order
RECURSIVE split(_, _)
split(str, sep) ==
    IF \A k \in 1..Len(str) : str[k] # sep THEN <<str>>
    ELSE LET k == CHOOSE j \in 1..Len(str) :
                      str[j] = sep /\ \A h \in 1..(j - 1) : str[h] # sep
         IN  <<SubSeq(str, 1, k - 1)>> \o split(SubSeq(str, k + 1, Len(str)), sep)

\* f"{value}"
Format(value) == IF value = None THEN <<"None">> ELSE value

\* ------------------------------------------------------------ CryptoSymbol
NoSymbol == [symbol |-> None, pair |-> None]
NoExc == [type |-> "None", msg |-> None]
FormatMsg == <<"String format must be 'SYMBOL/PAIR', e.g. 'BTC/USD'">>
NotCallableMsg == <<"'ValueError' object is not callable">>

CryptoSymbol(sym, pair) == [symbol |-> sym, pair |-> pair]

\* symbol, pair = symbol_pair_str.split("/") unpacks exactly two pieces; any
\* other count raises ValueError, and the handler `raise e(...)` calls the
\* caught exception instance, which raises TypeError in its place.
from_string(str) ==
    LET parts == split(str, SEP)
    IN  IF Len(parts) = 2
        THEN [ok |-> TRUE, value |-> CryptoSymbol(parts[1], parts[2]), exc |-> NoExc]
        ELSE [ok |-> FALSE, value |-> NoSymbol,
              exc |-> [type |-> "TypeError", msg |-> NotCallableMsg]]

\* the fields formatted in the wrong order
to_string_swapped(self) == self.pair \o <<SEP>> \o self.symbol

to_string(self) == self.symbol \o <<SEP>> \o self.pair

\* ------------------------------------------------------- pandas.DataFrame
\* A cell value carries its dtype: an int64 off the wire, a datetime64
\* (Timestamp `v` seconds after the epoch), or NaN/NaT for a missing cell.
Int64(n) == [dtype |-> "int64", v |-> n]
Timestamp(n) == [dtype |-> "datetime64", v |-> n]
NaN == [dtype |-> "NaN", v |-> 0]

\* pd.to_datetime(value, unit="s"): epoch seconds become a Timestamp; a
\* value that is a Timestamp already stays as it is
to_datetime(val) == IF val.dtype = "int64" THEN Timestamp(val.v) ELSE val

time == <<"time">>
Fields == <<time, <<"open">>, <<"close">>>>

\* pd.DataFrame(records): one column per key of the records, a RangeIndex
DataFrame(records) ==
    [columns |-> IF records = <<>> THEN <<>> ELSE Fields,
     index_name |-> None,
     rows |-> [k \in 1..Len(records) |-> [key |-> Int64(k - 1), cells |-> records[k]]]]

NoFrame == DataFrame(<<>>)

HasColumn(df, col) == \E k \in 1..Len(df.columns) : df.columns[k] = col
ColumnPos(df, col) == CHOOSE k \in 1..Len(df.columns) : df.columns[k] = col

Without(seq, pos) == SubSeq(seq, 1, pos - 1) \o SubSeq(seq, pos + 1, Len(seq))

\* df[col] = pd.to_datetime(df[col], unit="s")
ConvertColumn(df, col) ==
    LET pos == ColumnPos(df, col)
    IN  [df EXCEPT !.rows = [k \in 1..Len(df.rows) |->
            [df.rows[k] EXCEPT !.cells[pos] = to_datetime(df.rows[k].cells[pos])]]]

\* the column becomes the index but stays a column as well (drop=False)
set_index_keep(df, col) ==
    LET pos == ColumnPos(df, col)
    IN  [columns |-> df.columns,
         index_name |-> col,
         rows |-> [k \in 1..Len(df.rows) |->
                    [key |-> df.rows[k].cells[pos], cells |-> df.rows[k].cells]]]

\* df.set_index(col, inplace=True): the column becomes the row index and is
\* no longer a column
set_index(df, col) ==
    LET pos == ColumnPos(df, col)
    IN  [columns |-> Without(df.columns, pos),
         index_name |-> col,
         rows |-> [k \in 1..Len(df.rows) |->
                    [key |-> df.rows[k].cells[pos],
                     cells |-> Without(df.rows[k].cells, pos)]]]

\* df.rename(columns={col: f"{prefix}_{col}" for col in df.columns})
add_prefix(df, prefix) ==
    [df EXCEPT !.columns = [k \in 1..Len(df.columns) |-> prefix \o <<"_">> \o df.columns[k]]]

Keys(df) == {df.rows[k].key : k \in 1..Len(df.rows)}

RECURSIVE SortedKeys(_)
SortedKeys(S) ==
    IF S = {} THEN <<>>
    ELSE LET least == CHOOSE x \in S : \A y \in S : x.v <= y.v
         IN  <<least>> \o SortedKeys(S \ {least})

RowsWithKey(df, key) ==
    LET hit == SelectSeq(df.rows, LAMBDA r : r.key = key)
    IN  IF hit = <<>>
        THEN <<[key |-> key, cells |-> [k \in 1..Len(df.columns) |-> NaN]]>>
        ELSE hit

\* the rows of an outer join for one key: every left row with that key next to
\* every right row with it, NaN standing in for the side that has none
JoinedRows(left, right, key) ==
    LET l == RowsWithKey(left, key)
        r == RowsWithKey(right, key)
    IN  [n \in 1..(Len(l) * Len(r)) |->
            [key |-> key,
             cells |-> l[((n - 1) \div Len(r)) + 1].cells \o r[((n - 1) % Len(r)) + 1].cells]]

RECURSIVE JoinAll(_, _, _)
JoinAll(left, right, keys) ==
    IF keys = <<>> THEN <<>>
    ELSE JoinedRows(left, right, Head(keys)) \o JoinAll(left, right, Tail(keys))

Range(seq) == {seq[k] : k \in 1..Len(seq)}

\* the join done with how="inner": only the keys both sides have
merge_inner(left, right) ==
    [columns |-> left.columns \o right.columns,
     index_name |-> left.index_name,
     rows |-> JoinAll(left, right, SortedKeys(Keys(left) \cap Keys(right)))]

\* pd.merge(left, right, left_index=True, right_index=True, how="outer"):
\* the rows are the sorted union of both indexes; a column name both sides
\* have takes the suffix _x on the left and _y on the right
merge_outer(left, right) ==
    LET both == Range(left.columns) \cap Range(right.columns)
        Suffixed(cols, sfx) ==
            [k \in 1..Len(cols) |-> IF cols[k] \in both THEN cols[k] \o sfx ELSE cols[k]]
    IN  [columns |-> Suffixed(left.columns, <<"_x">>) \o Suffixed(right.columns, <<"_y">>),
         index_name |-> IF left.index_name = right.index_name THEN left.index_name ELSE None,
         rows |-> JoinAll(left, right, SortedKeys(Keys(left) \cup Keys(right)))]

\* ------------------------------------------------------------ dict (ordered)
DictHas(d, key) == \E k \in 1..Len(d) : d[k].key = key
DictGet(d, key) == d[CHOOSE k \in 1..Len(d) : d[k].key = key].value
DictKeys(d) == [k \in 1..Len(d) |-> d[k].key]
\* d[key] = value: a new key goes to the end, a known key keeps its place
DictSet(d, key, value) ==
    IF DictHas(d, key)
    THEN [k \in 1..Len(d) |-> IF d[k].key = key THEN [key |-> key, value |-> value] ELSE d[k]]
    ELSE Append(d, [key |-> key, value |-> value])

\* --------------------------------------------------------- the upstream API
Success == <<"Success">>
RateLimit == <<"rate limit">>
\* the records the upstream may send: dicts with the keys of Fields, in order
Records == {<<Int64(1), Int64(7), Int64(8)>>, <<Int64(2), Int64(8), Int64(9)>>}
DataLists == {<<>>} \cup {<<r>> : r \in Records} \cup {<<r, s>> : r \in Records, s \in Records}

\* a JSON body: "Response", "Message" (None when the key is absent) and the
\* records under ["Data"]["Data"] (has_data FALSE when that key is absent)
Body(response, message, has_data, records) ==
    [Response |-> response, Message |-> message, has_data |-> has_data, Data |-> records]
Bodies ==
    {Body(Success, None, TRUE, d) : d \in DataLists}
    \cup {Body(Success, None, FALSE, <<>>)}
    \cup {Body(r, m, FALSE, <<>>) : r \in {<<"Error">>, None}, m \in {RateLimit, None}}
NoBody == Body(None, None, FALSE, <<>>)

\* what requests.get can come back with: no connection, an HTTP error status,
\* or a 200 with a JSON body
Responses ==
    {[connected |-> FALSE, status_code |-> 0, body |-> NoBody],
     [connected |-> TRUE, status_code |-> 500, body |-> NoBody]}
    \cup {[connected |-> TRUE, status_code |-> 200, body |-> b] : b \in Bodies}

\* ------------------------------------------------------- symbol_price_hist
DefaultLimit == 2000
URLS == [u \in {<<"minute">>, <<"hour">>, <<"day">>} |->
            <<"https://min-api.cryptocompare.com/data/v2/histo">> \o u]
InvalidUnitMsg == <<"Invalid unit provided. Select from 'minute', 'hour' or 'day'.">>

Raise(type, msg) == [type |-> type, msg |-> msg]

\* an unknown unit silently falls back to the daily endpoint
SingleRequest_Fallback(sym) ==
    [exc |-> NoExc,
     sent |-> <<[url |-> IF unit \in DOMAIN URLS THEN URLS[unit] ELSE URLS[<<"day">>],
                 fsym |-> sym.symbol, tsym |-> sym.pair, limit |-> DefaultLimit,
                 e |-> IF exchange \in {None, <<>>} THEN None ELSE exchange]>>]

\* fsym and tsym taken from the wrong fields
SingleRequest_Swapped(sym) ==
    IF unit \notin DOMAIN URLS
    THEN [exc |-> Raise("ValueError", InvalidUnitMsg), sent |-> <<>>]
    ELSE [exc |-> NoExc,
          sent |-> <<[url |-> URLS[unit],
                      fsym |-> sym.pair, tsym |-> sym.symbol, limit |-> DefaultLimit,
                      e |-> IF exchange \in {None, <<>>} THEN None ELSE exchange]>>]

\* _single_symbol_price_hist up to requests.get: the URL lookup that rejects
\* an unknown unit, and the request that is sent otherwise
SingleRequest(sym) ==
    IF unit \notin DOMAIN URLS
    THEN [exc |-> Raise("ValueError", InvalidUnitMsg), sent |-> <<>>]
    ELSE [exc |-> NoExc,
          sent |-> <<[url |-> URLS[unit],
                      fsym |-> sym.symbol, tsym |-> sym.pair, limit |-> DefaultLimit,
                      e |-> IF exchange \in {None, <<>>} THEN None ELSE exchange]>>]

\* only a body that says "Error" is taken for an upstream failure
SingleResult_ErrorOnly(resp) ==
    IF ~resp.connected THEN [exc |-> Raise("ConnectionError", None), df |-> NoFrame]
    ELSE IF resp.status_code >= 400 THEN [exc |-> Raise("HTTPError", None), df |-> NoFrame]
    ELSE IF resp.body.Response = <<"Error">>
    THEN [exc |-> Raise("ValueError", <<"API Error: ">> \o Format(resp.body.Message)),
          df |-> NoFrame]
    ELSE IF ~resp.body.has_data THEN [exc |-> Raise("KeyError", <<"Data">>), df |-> NoFrame]
    ELSE LET df == DataFrame(resp.body.Data)
         IN  IF ~HasColumn(df, time) THEN [exc |-> Raise("KeyError", time), df |-> NoFrame]
             ELSE [exc |-> NoExc, df |-> ConvertColumn(df, time)]

\* _single_symbol_price_hist from the response on: raise_for_status, the
\* check of the body's "Response", the DataFrame and the conversion of "time"
SingleResult(resp) ==
    IF ~resp.connected THEN [exc |-> Raise("ConnectionError", None), df |-> NoFrame]
    ELSE IF resp.status_code >= 400 THEN [exc |-> Raise("HTTPError", None), df |-> NoFrame]
    ELSE IF resp.body.Response # Success
    THEN [exc |-> Raise("ValueError", <<"API Error: ">> \o Format(resp.body.Message)),
          df |-> NoFrame]
    ELSE IF ~resp.body.has_data THEN [exc |-> Raise("KeyError", <<"Data">>), df |-> NoFrame]
    ELSE LET df == DataFrame(resp.body.Data)
         IN  IF ~HasColumn(df, time) THEN [exc |-> Raise("KeyError", time), df |-> NoFrame]
             ELSE [exc |-> NoExc, df |-> ConvertColumn(df, time)]

\* what both branches do to the frame _single_symbol_price_hist returned:
\* convert "time" once more and set the index unless index is ""
Indexed(df) ==
    LET conv == ConvertColumn(df, time)
    IN  IF index = <<>> THEN [exc |-> NoExc, df |-> conv]
        ELSE IF ~HasColumn(conv, index) THEN [exc |-> Raise("KeyError", index), df |-> NoFrame]
        ELSE [exc |-> NoExc, df |-> set_index(conv, index)]

\* the columns prefixed whether or not the frames are to be merged
LoopBody_AlwaysPrefix(sym_str, df) ==
    LET ix == Indexed(df)
    IN  IF ix.exc # NoExc THEN ix
        ELSE [exc |-> NoExc, df |-> add_prefix(ix.df, sym_str)]

\* the body of the for loop after the fetch: index, then prefix when merging
LoopBody(sym_str, df) ==
    LET ix == Indexed(df)
    IN  IF ix.exc # NoExc THEN ix
        ELSE [exc |-> NoExc, df |-> IF merge THEN add_prefix(ix.df, sym_str) ELSE ix.df]

HasDuplicates(seq) == \E a, b \in 1..Len(seq) : a < b /\ seq[a] = seq[b]

\* df_res = data[symbol[0]]; for sym in symbol[1:]: df_res = pd.merge(...)
RECURSIVE MergeFrom(_, _, _)
MergeFrom(acc, items, k) ==
    IF k > Len(items) THEN [exc |-> NoExc, df |-> acc]
    ELSE LET m == merge_outer(acc, DictGet(data, to_string(items[k])))
         IN  IF HasDuplicates(m.columns)
             THEN [exc |-> Raise("MergeError", None), df |-> NoFrame]
             ELSE MergeFrom(m, items, k + 1)

BTC_USD == CryptoSymbol(<<"BTC">>, <<"USD">>)
ETH_BTC == CryptoSymbol(<<"ETH">>, <<"BTC">>)
ETH_USD == CryptoSymbol(<<"ETH">>, <<"USD">>)
Symbols == {BTC_USD, ETH_BTC, ETH_USD}

RECURSIVE ListsUpTo(_)
ListsUpTo(n) ==
    IF n = 0 THEN {<<>>}
    ELSE LET shorter == ListsUpTo(n - 1)
         IN  shorter \cup {Append(l, s) : l \in {x \in shorter : Len(x) = n - 1}, s \in Symbols}

NoResult == [type |-> "None", df |-> NoFrame, data |-> <<>>]

SymIdle ==
    /\ symbol_pair_str = <<>> /\ sym_pc = "idle" /\ parsed = NoSymbol
    /\ sym_exc = NoExc /\ formatted = None

Init ==
    /\ symbol \in {[iterable |-> FALSE, items |-> <<s>>] : s \in Symbols}
                  \cup {[iterable |-> TRUE, items |-> l] : l \in ListsUpTo(MaxSymbols)}
    /\ unit \in {<<"minute">>, <<"hour">>, <<"day">>, <<"week">>}
    /\ merge \in BOOLEAN
    /\ index \in {time, <<>>, <<"close">>}
    /\ exchange \in {None, <<"Kraken">>}
    /\ pc = "running"
    /\ i = 0
    /\ requests = <<>>
    /\ responses = <<>>
    /\ data = <<>>
    /\ df_res = NoResult
    /\ exc = NoExc
    /\ SymIdle

Fail(e) ==
    /\ pc' = "raised"
    /\ exc' = e
    /\ UNCHANGED <<i, data, df_res>>

\* not isinstance(symbol, Iterable): _single_symbol_price_hist(symbol) up to
\* the request
CallSingle ==
    /\ pc = "running"
    /\ ~symbol.iterable
    /\ LET pre == SingleRequest(symbol.items[1])
       IN  IF pre.exc # NoExc
           THEN Fail(pre.exc) /\ UNCHANGED requests
           ELSE /\ requests' = requests \o pre.sent
                /\ pc' = "waiting"
                /\ UNCHANGED <<i, data, df_res, exc>>
    /\ UNCHANGED <<symbol, unit, merge, index, exchange, responses, symvars>>

\* the response of the single fetch, and the rest of the else branch
RecvSingle(resp) ==
    /\ pc = "waiting"
    /\ ~symbol.iterable
    /\ responses' = Append(responses, resp)
    /\ LET got == SingleResult(resp)
           ix == Indexed(got.df)
       IN  IF got.exc # NoExc THEN Fail(got.exc)
           ELSE IF ix.exc # NoExc THEN Fail(ix.exc)
           ELSE /\ df_res' = [type |-> "DataFrame", df |-> ix.df, data |-> <<>>]
                /\ pc' = "returned"
                /\ UNCHANGED <<i, data, exc>>
    /\ UNCHANGED <<symbol, unit, merge, index, exchange, requests, symvars>>

\* the next round of `for sym in symbol`, up to the request
ForNext ==
    /\ pc = "running"
    /\ symbol.iterable
    /\ i < Len(symbol.items)
    /\ LET pre == SingleRequest(symbol.items[i + 1])
       IN  IF pre.exc # NoExc
           THEN Fail(pre.exc) /\ UNCHANGED requests
           ELSE /\ requests' = requests \o pre.sent
                /\ pc' = "waiting"
                /\ UNCHANGED <<i, data, df_res, exc>>
    /\ UNCHANGED <<symbol, unit, merge, index, exchange, responses, symvars>>

\* a failed fetch is swallowed and the loop goes on with the next symbol
RecvMany_Skip(resp) ==
    /\ pc = "waiting"
    /\ symbol.iterable
    /\ responses' = Append(responses, resp)
    /\ LET sym_str == to_string(symbol.items[i + 1])
           got == SingleResult(resp)
           body == LoopBody(sym_str, got.df)
       IN  IF got.exc # NoExc
           THEN /\ i' = i + 1
                /\ pc' = "running"
                /\ UNCHANGED <<data, df_res, exc>>
           ELSE IF body.exc # NoExc THEN Fail(body.exc)
           ELSE /\ data' = DictSet(data, sym_str, body.df)
                /\ i' = i + 1
                /\ pc' = "running"
                /\ UNCHANGED <<df_res, exc>>
    /\ UNCHANGED <<symbol, unit, merge, index, exchange, requests, symvars>>

\* the response of this round's fetch, and the rest of the loop body
RecvMany(resp) ==
    /\ pc = "waiting"
    /\ symbol.iterable
    /\ responses' = Append(responses, resp)
    /\ LET sym_str == to_string(symbol.items[i + 1])
           got == SingleResult(resp)
           body == LoopBody(sym_str, got.df)
       IN  IF got.exc # NoExc THEN Fail(got.exc)
           ELSE IF body.exc # NoExc THEN Fail(body.exc)
           ELSE /\ data' = DictSet(data, sym_str, body.df)
                /\ i' = i + 1
                /\ pc' = "running"
                /\ UNCHANGED <<df_res, exc>>
    /\ UNCHANGED <<symbol, unit, merge, index, exchange, requests, symvars>>

\* after the loop: merge the frames into one, or return the dict
ForDone ==
    /\ pc = "running"
    /\ symbol.iterable
    /\ i = Len(symbol.items)
    /\ IF ~merge
       THEN /\ df_res' = [type |-> "dict", df |-> NoFrame, data |-> data]
            /\ pc' = "returned"
            /\ UNCHANGED <<i, data, exc>>
       ELSE IF symbol.items = <<>>
       THEN Fail(Raise("IndexError", None))
       ELSE LET m == MergeFrom(DictGet(data, to_string(symbol.items[1])), symbol.items, 2)
            IN  IF m.exc # NoExc THEN Fail(m.exc)
                ELSE /\ df_res' = [type |-> "DataFrame", df |-> m.df, data |-> <<>>]
                     /\ pc' = "returned"
                     /\ UNCHANGED <<i, data, exc>>
    /\ UNCHANGED <<symbol, unit, merge, index, exchange, requests, responses, symvars>>

Next ==
    \/ CallSingle
    \/ \E resp \in Responses : RecvSingle(resp)
    \/ ForNext
    \/ \E resp \in Responses : RecvMany(resp)
    \/ ForDone

Spec == Init /\ [][Next]_vars

\* ------------------------------------- CryptoSymbol: parse, then format
HistIdle ==
    /\ symbol = [iterable |-> FALSE, items |-> <<>>]
    /\ unit = None /\ merge = FALSE /\ index = None /\ exchange = None
    /\ pc = "idle" /\ i = 0 /\ requests = <<>> /\ responses = <<>>
    /\ data = <<>> /\ df_res = NoResult
    /\ exc = NoExc

SymInit ==
    /\ symbol_pair_str \in StringsUpTo(MaxLen)
    /\ sym_pc = "start"
    /\ parsed = NoSymbol
    /\ sym_exc = NoExc
    /\ formatted = None
    /\ HistIdle

FromString ==
    /\ sym_pc = "start"
    /\ LET r == from_string(symbol_pair_str)
       IN  /\ sym_pc' = IF r.ok THEN "parsed" ELSE "raised"
           /\ parsed' = r.value
           /\ sym_exc' = r.exc
    /\ UNCHANGED <<symbol_pair_str, formatted, histvars>>

ToString ==
    /\ sym_pc = "parsed"
    /\ formatted' = to_string(parsed)
    /\ sym_pc' = "formatted"
    /\ UNCHANGED <<symbol_pair_str, parsed, sym_exc, histvars>>

SymNext == FromString \/ ToString

SymSpec == SymInit /\ [][SymNext]_vars

\* ---------------------------------------------- claims about CryptoSymbol
Malformed(str) == Count(str, SEP) # 1
WellFormed(str) ==
    /\ Count(str, SEP) = 1
    /\ str[1] # SEP
    /\ str[Len(str)] # SEP
SepAt(str) == CHOOSE k \in 1..Len(str) : str[k] = SEP

\* C1: from_string of a string that does not hold exactly one '/' raises a
\* ValueError carrying "String format must be 'SYMBOL/PAIR', e.g. 'BTC/USD'"
\* and returns no identifier.
C1_MalformedRaisesParseError ==
    (sym_pc \notin {"idle", "start"} /\ Malformed(symbol_pair_str)) =>
        /\ sym_pc = "raised"
        /\ parsed = NoSymbol
        /\ sym_exc.type = "ValueError"
        /\ sym_exc.msg = FormatMsg

\* C2: every CryptoSymbol from_string returns has a non-empty symbol and a
\* non-empty pair.
C2_FieldsNonEmpty ==
    sym_pc \in {"parsed", "formatted"} =>
        (parsed.symbol # <<>> /\ parsed.pair # <<>>)

\* C3: for a string BASE/QUOTE with one '/' and non-empty parts, from_string
\* succeeds, takes both parts verbatim, and to_string gives the string back.
C3_RoundTrip ==
    (sym_pc \notin {"idle", "start"} /\ WellFormed(symbol_pair_str)) =>
        /\ sym_pc \in {"parsed", "formatted"}
        /\ parsed.symbol = SubSeq(symbol_pair_str, 1, SepAt(symbol_pair_str) - 1)
        /\ parsed.pair = SubSeq(symbol_pair_str, SepAt(symbol_pair_str) + 1,
                                Len(symbol_pair_str))
        /\ sym_pc = "formatted" => formatted = symbol_pair_str

C3_Witness ==
    /\ sym_pc = "formatted"
    /\ symbol_pair_str = <<"B", " ", SEP, "u">>
    /\ formatted = symbol_pair_str

\* ----------------------------------------- claims about symbol_price_hist
Items == symbol.items
NumSymbols == Len(Items)
Distinct(items) ==
    \A a, b \in 1..Len(items) : a # b => to_string(items[a]) # to_string(items[b])
LastResponse == responses[Len(responses)]
\* a transport failure or an upstream logical error
Failed(resp) ==
    \/ ~resp.connected
    \/ resp.status_code # 200
    \/ resp.body.Response # Success
Contains(text, part) ==
    \E a \in 1..(Len(text) - Len(part) + 1) : SubSeq(text, a, a + Len(part) - 1) = part
HasPrefix(text, prefix) ==
    Len(prefix) <= Len(text) /\ SubSeq(text, 1, Len(prefix)) = prefix

FieldPos(f) == CHOOSE k \in 1..Len(Fields) : Fields[k] = f
\* the value the caller sees for field f of an upstream record: the record's
\* own value, "time" as the Timestamp of its epoch seconds
Shown(rec, f) == IF f = time THEN Timestamp(rec[FieldPos(time)].v) ELSE rec[FieldPos(f)]
IndexValues(resp) == {Shown(rec, index) : rec \in Range(resp.body.Data)}
Timestamps(resp) == {Shown(rec, time) : rec \in Range(resp.body.Data)}
DataFields == SelectSeq(Fields, LAMBDA f : f # index)
Prefix(k) == to_string(Items[k]) \o <<"_">>

\* C4: with a unit other than 'minute', 'hour' or 'day', for a single symbol
\* or a non-empty collection and any merge/index, the call raises the
\* ValueError for the unit and no HTTP request is ever issued.
C4_InvalidUnitNoRequest ==
    (pc # "idle" /\ unit \notin {<<"minute">>, <<"hour">>, <<"day">>} /\ Items # <<>>) =>
        /\ requests = <<>>
        /\ df_res = NoResult
        /\ pc # "running" => (pc = "raised" /\ exc = Raise("ValueError", InvalidUnitMsg))

C4_Witness ==
    /\ pc = "raised" /\ unit = <<"week">> /\ symbol.iterable /\ NumSymbols = 2 /\ merge
    /\ exc.type = "ValueError" /\ requests = <<>>

\* C5 (as claimed): with index 'time' and F fields per record, the returned
\* table has F columns for a single symbol and F * n for a merge of n
\* distinct symbols.
C5_ColumnsFPerSymbol ==
    (pc = "returned" /\ index = time /\ df_res.type = "DataFrame" /\ Distinct(Items)) =>
        Len(df_res.df.columns) = Len(Fields) * NumSymbols

\* C5 (amended): with index 'time' the index column is no column any more:
\* the returned table has F - 1 columns for a single symbol and (F - 1) * n
\* for a merge of n distinct symbols.
C5_ColumnsWithoutIndex ==
    (pc = "returned" /\ index = time /\ df_res.type = "DataFrame" /\ Distinct(Items)) =>
        Len(df_res.df.columns) = (Len(Fields) - 1) * NumSymbols

C5_Witness ==
    /\ pc = "returned" /\ index = time /\ symbol.iterable /\ merge
    /\ NumSymbols = 2 /\ Distinct(Items)
    /\ Len(df_res.df.columns) = 2 * (Len(Fields) - 1)

\* C6: in a multi-symbol call the requests issued so far are, by fsym/tsym, a
\* prefix of the input symbols; a request goes out only when every earlier
\* response has been processed, and a successful return has seen exactly
\* one request per input symbol.
C6_RequestsSequential ==
    (pc # "idle" /\ symbol.iterable) =>
        /\ Len(requests) <= NumSymbols
        /\ \A k \in 1..Len(requests) :
              requests[k].fsym = Items[k].symbol /\ requests[k].tsym = Items[k].pair
        /\ pc = "running" => (Len(requests) = i /\ Len(responses) = i)
        /\ pc = "waiting" => (Len(requests) = i + 1 /\ Len(responses) = i)
        /\ pc = "raised" => Len(requests) - Len(responses) \in {0, 1}
        /\ pc = "returned" => (Len(requests) = NumSymbols /\ Len(responses) = NumSymbols)

C6_Witness ==
    /\ pc = "returned" /\ symbol.iterable /\ NumSymbols = 2 /\ Distinct(Items)
    /\ Len(requests) = 2
    /\ requests[2].fsym = Items[2].symbol /\ requests[2].tsym = Items[2].pair

\* C7: in a multi-symbol call, once the fetch of a symbol has failed
\* (transport failure or upstream error) the call has raised that error, has
\* returned nothing, and has issued no request after the failed one.
C7_NoPartialResults ==
    (pc # "idle" /\ symbol.iterable /\ \E k \in 1..Len(responses) : Failed(responses[k])) =>
        /\ pc = "raised"
        /\ df_res = NoResult
        /\ \A k \in 1..(Len(responses) - 1) : ~Failed(responses[k])
        /\ Len(requests) = Len(responses)
        /\ exc.type = IF ~LastResponse.connected THEN "ConnectionError"
                      ELSE IF LastResponse.status_code # 200 THEN "HTTPError"
                      ELSE "ValueError"

C7_Witness ==
    /\ pc = "raised" /\ symbol.iterable /\ ~merge /\ NumSymbols = 2
    /\ Len(responses) = 2 /\ ~Failed(responses[1]) /\ Failed(responses[2])
    /\ Len(data) = 1

\* C8: a response with status 200 whose body's "Response" is not "Success"
\* (absent included) makes the call raise a ValueError whose text holds the
\* body's "Message", and nothing is built or returned from that body.
C8_ApiError ==
    (pc # "idle" /\ responses # <<>> /\ LastResponse.connected
       /\ LastResponse.status_code = 200 /\ LastResponse.body.Response # Success) =>
        /\ pc = "raised"
        /\ exc.type = "ValueError"
        /\ LastResponse.body.Message # None => Contains(exc.msg, LastResponse.body.Message)
        /\ df_res = NoResult
        /\ i = Len(responses) - 1
        /\ Len(data) <= i

C8_Witness ==
    /\ pc = "raised" /\ responses # <<>>
    /\ LastResponse.status_code = 200
    /\ LastResponse.body.Response = None /\ LastResponse.body.Message = RateLimit
    /\ exc = Raise("ValueError", <<"API Error: ", "rate limit">>)

MergedReturn ==
    /\ pc = "returned" /\ symbol.iterable /\ merge /\ index # <<>>
    /\ df_res.type = "DataFrame"

\* C9 (as claimed): a merged fetch with a non-empty index column returns one
\* table whose row index is the union of the timestamps of all the
\* per-symbol tables, whose columns all carry the prefix "{symbolString}_" of
\* an input symbol, and where a cell is null exactly when its symbol's table
\* has no row for the row's timestamp.
C9_MergedIndexIsTimestampUnion ==
    MergedReturn =>
        LET df == df_res.df
        IN  /\ Keys(df) = UNION {Timestamps(responses[k]) : k \in 1..NumSymbols}
            /\ \A c \in 1..Len(df.columns) :
                  \E k \in 1..NumSymbols : HasPrefix(df.columns[c], Prefix(k))
            /\ \A r \in 1..Len(df.rows), c \in 1..Len(df.columns), k \in 1..NumSymbols :
                  HasPrefix(df.columns[c], Prefix(k)) =>
                      (df.rows[r].cells[c] = NaN <=> df.rows[r].key \notin Timestamps(responses[k]))

\* C9 (amended): for symbols with pairwise distinct string forms, the row
\* index of the merged table is the union of the index column's values over
\* the per-symbol tables (their timestamps when the index column is 'time');
\* the columns are, symbol by symbol in input order, the other fields
\* prefixed with "{symbolString}_"; a cell is null exactly when its symbol's
\* table has no row for the row's index value, and holds that symbol's value
\* for it otherwise.
C9_MergedIndexIsIndexUnion ==
    (MergedReturn /\ Distinct(Items)) =>
        LET df == df_res.df
            w == Len(DataFields)
        IN  /\ Keys(df) = UNION {IndexValues(responses[k]) : k \in 1..NumSymbols}
            /\ Len(df.columns) = NumSymbols * w
            /\ \A k \in 1..NumSymbols, c \in 1..w :
                  df.columns[(k - 1) * w + c] = Prefix(k) \o DataFields[c]
            /\ \A r \in 1..Len(df.rows), k \in 1..NumSymbols, c \in 1..w :
                  LET cell == df.rows[r].cells[(k - 1) * w + c]
                  IN  /\ cell = NaN <=> df.rows[r].key \notin IndexValues(responses[k])
                      /\ cell # NaN =>
                            \E rec \in Range(responses[k].body.Data) :
                                /\ Shown(rec, index) = df.rows[r].key
                                /\ Shown(rec, DataFields[c]) = cell

C9_Witness ==
    /\ MergedReturn /\ Distinct(Items) /\ NumSymbols = 2 /\ index = time
    /\ Timestamps(responses[1]) = {Timestamp(1)}
    /\ Timestamps(responses[2]) = {Timestamp(2)}
    /\ Keys(df_res.df) = {Timestamp(1), Timestamp(2)}
    /\ \E r \in 1..Len(df_res.df.rows) : df_res.df.rows[r].cells[1] = NaN

UnmergedReturn ==
    /\ pc = "returned" /\ symbol.iterable /\ ~merge /\ Items # <<>>

\* the table built from one response alone: the fields other than the index
\* column, unprefixed, one row per record in the record's order, keyed by the
\* index column's value (by the row number when index is "")
BuiltFrom(df, resp) ==
    LET recs == resp.body.Data
    IN  /\ df.columns = DataFields
        /\ Len(df.rows) = Len(recs)
        /\ \A r \in 1..Len(recs) :
              /\ df.rows[r].key = IF index = <<>> THEN Int64(r - 1) ELSE Shown(recs[r], index)
              /\ \A c \in 1..Len(DataFields) :
                    df.rows[r].cells[c] = Shown(recs[r], DataFields[c])

\* C10 (as claimed): an unmerged fetch of any non-empty collection returns a
\* mapping whose keys, in insertion order, are the input symbols' string
\* forms, one per input symbol, each value the unprefixed table built from
\* that symbol's own response.
C10_KeysAreInputSequence ==
    UnmergedReturn =>
        /\ df_res.type = "dict"
        /\ DictKeys(df_res.data) = [k \in 1..NumSymbols |-> to_string(Items[k])]
        /\ \A k \in 1..NumSymbols :
              BuiltFrom(DictGet(df_res.data, to_string(Items[k])), responses[k])

\* C10 (amended): the same for a collection of symbols with pairwise distinct
\* string forms.
C10_KeysAreDistinctInputSequence ==
    (UnmergedReturn /\ Distinct(Items)) =>
        /\ df_res.type = "dict"
        /\ DictKeys(df_res.data) = [k \in 1..NumSymbols |-> to_string(Items[k])]
        /\ \A k \in 1..NumSymbols :
              BuiltFrom(DictGet(df_res.data, to_string(Items[k])), responses[k])

C10_Witness ==
    /\ UnmergedReturn /\ Items = <<BTC_USD, ETH_BTC>> /\ index = time
    /\ DictKeys(df_res.data) = <<<<"BTC", "/", "USD">>, <<"ETH", "/", "BTC">>>>
    /\ Len(responses[1].body.Data) = 2 /\ Len(responses[2].body.Data) = 1

====
